---- MODULE Spec2Model ----
(***************************************************************************)
(* api-rate-limiter: the fixed-window RateLimiter (src/src/limiter.rs)     *)
(* over the InMemoryCache backend (src/src/cache/in_memory.rs).            *)
(*                                                                         *)
(* Threads share one limiter and one store.  Every access to the DashMap   *)
(* that happens under one shard lock is one step; whatever the code does   *)
(* between two lock acquisitions (or between a clock reading and the lock) *)
(* is a point where other threads and the clock may move.                  *)
(***************************************************************************)
EXTENDS Integers, Sequences, FiniteSets, TLC

\* ---------------------------------------------------------------- bounds
MaxLimit == 2
MaxTtl == 2
MaxClock == 2
MaxCalls == 3
MaxOps == 3
MaxAmount == 2
MaxValue == 1
MaxCapacity == 2
MaxPeriod == 2
MaxBucketCalls == 4
MaxSharedCalls == 2

Threads == {"t1", "t2"}
Ips == {"a", "b"}

\* seeded fault: the identity is left out of the key
KeyShared(ip) == "rate_limit:"

\* limiter.rs:60  let key = format!("rate_limit:{}", ip);
Key(ip) == "rate_limit:" \o ip
Keys == {Key(i) : i \in Ips}
IpOf(k) == CHOOSE i \in Ips : Key(i) = k

VARIABLES
    clock,      \* Instant::now(), in ticks
    \* RateLimiter and its backend
    limit,      \* RateLimiter.limit
    ttl,        \* RateLimiter.ttl, in ticks
    store,      \* InMemoryCache.store: key -> CacheEntry, defined on the keys present
    \* per thread: the running call
    pc,         \* where the thread stands in allow() and in the store call it runs
    caller,     \* "allow": the store call was made by allow(); "direct": by a client
    key,        \* the key of the running call
    arg,        \* incr's amount, set's value
    dur,        \* set's ttl
    now,        \* the Instant::now() the running store call has read
    result,     \* what the thread's last allow() returned (valid when pc = "done")
    ret,        \* what the thread's last direct store call returned
    \* history
    trace,      \* per thread: the store calls the running allow() has made
    sawExpired, \* per thread: the entry was present and expired when allow()'s get looked
    started,    \* per identity: allow() calls begun
    admitted,   \* per identity: allow() calls that returned true
    overlap,    \* some allow() began while another was in progress
    contended,  \* per identity: some allow() for it began while another for it ran
    last,       \* the thread that began the latest allow()
    nsets,      \* per key: set calls that wrote the entry
    anchor,     \* per key: the clock reading of the latest set that wrote the entry
    windowAdmitted, \* per key: allow() calls that returned true since that set
    failed,     \* some store call has returned Err (the in-memory backend never does)
    hist,       \* the direct store calls completed, in order of completion
    \* the token bucket
    capacity,      \* max tokens
    refill_period, \* ticks over which `capacity` tokens replenish
    tokens,        \* current tokens
    last_refill,   \* clock reading of the last refill
    holder,        \* the thread holding the bucket's mutex, or "none"
    bresult,       \* per thread: what its last bucket allow() returned
    bcount,        \* bucket allow() calls completed
    bgranted,      \* bucket allow() calls that returned true
    bfirst,        \* clock reading of the first bucket allow(), -1 before it
    bcalls,        \* per thread: bucket allow() calls it has made
    bidle,         \* ticks the bucket sat idle before the current burst of calls
    bburst,        \* bucket allow() calls made at the instant of the latest one
    bburstGranted  \* those of them that returned true

limiterVars == <<limit, ttl>>
frameVars == <<pc, caller, key, arg, dur, now, result, ret>>
historyVars == <<trace, sawExpired, started, admitted, overlap, contended, last, nsets, anchor,
                 windowAdmitted, failed, hist>>

bucketHistory == <<bcount, bgranted, bfirst, bcalls, bidle, bburst, bburstGranted>>

bucketVars == <<capacity, refill_period, tokens, last_refill, holder, bresult,
                bucketHistory>>

vars == <<clock, limiterVars, store, frameVars, historyVars, bucketVars>>

\* ------------------------------------------------------------ CacheEntry
\* in_memory.rs:6-9
CacheEntry(v, e) == [value |-> v, expires_at |-> e]

Present(k) == k \in DOMAIN store

\* DashMap::insert
InsertIn(m, k, e) == [x \in (DOMAIN m) \cup {k} |-> IF x = k THEN e ELSE m[x]]
Insert(k, e) == InsertIn(store, k, e)

\* DashMap::remove
RemoveFrom(m, k) == [x \in (DOMAIN m) \ {k} |-> m[x]]
Remove(k) == RemoveFrom(store, k)

\* seeded fault: the expiry test made inclusive
IsLiveInclusive(e, t) == e.expires_at >= t

\* in_memory.rs:29  entry.expires_at > Instant::now()
IsLive(e, t) == e.expires_at > t

\* seeded fault: an increment that also restamps the entry, as the insert does
IncrEntryRefresh(e, amount, t) ==
    IF e.expires_at <= t
    THEN [e EXCEPT !.value = amount]
    ELSE CacheEntry(e.value + amount, t)

\* seeded fault: an increment that adds to an expired entry too
IncrEntryAccumulate(e, amount, t) == [e EXCEPT !.value = e.value + amount]

\* in_memory.rs:56-61  the branch taken under get_mut's guard
IncrEntry(e, amount, t) ==
    IF e.expires_at <= t
    THEN [e EXCEPT !.value = amount]
    ELSE [e EXCEPT !.value = e.value + amount]

\* in_memory.rs:65-68  the entry incr inserts for a key it found absent
IncrNewEntry(amount, t) == CacheEntry(amount, t)

\* in_memory.rs:47-48  the entry set writes
SetEntry(value, t, d) == CacheEntry(value, t + d)

\* Option<u32> and Result<u32, String> as records
Some(v) == [ok |-> TRUE, val |-> v]
NoVal == [ok |-> FALSE, val |-> 0]

\* in_memory.rs:27-71: one whole call o of get, set or incr run on the map m with
\* no other call in between, reading the clock as o.now: the map it leaves and
\* the value it returns
SeqApply(m, o) ==
    LET k == o.key IN
    CASE o.op = "get" ->
            IF k \in DOMAIN m
            THEN IF IsLive(m[k], o.now)
                 THEN [store |-> m, ret |-> Some(m[k].value)]
                 ELSE [store |-> RemoveFrom(m, k), ret |-> NoVal]
            ELSE [store |-> m, ret |-> NoVal]
      [] o.op = "set" ->
            [store |-> InsertIn(m, k, SetEntry(o.arg, o.now, o.dur)), ret |-> Some(0)]
      [] o.op = "incr" ->
            IF k \in DOMAIN m
            THEN LET e == IncrEntry(m[k], o.arg, o.now) IN
                 [store |-> InsertIn(m, k, e), ret |-> Some(e.value)]
            ELSE [store |-> InsertIn(m, k, IncrNewEntry(o.arg, o.now)),
                  ret |-> Some(o.arg)]

RECURSIVE SumOver(_, _)
SumOver(f, S) == IF S = {} THEN 0
                 ELSE LET x == CHOOSE y \in S : TRUE IN f[x] + SumOver(f, S \ {x})

\* allow() calls begun so far, over all identities
TotalStarted == SumOver(started, Ips)

InCall(t) == pc[t] \notin {"idle", "done"}

Call(op, ok) == [op |-> op, ok |-> ok]

\* ----------------------------------------------------- RateLimiter::allow
\* allow() returns b: the frame is popped.
Return(t, b) ==
    /\ pc' = [pc EXCEPT ![t] = "done"]
    /\ result' = [result EXCEPT ![t] = b]
    /\ admitted' = IF b THEN [admitted EXCEPT ![IpOf(key[t])] = @ + 1] ELSE admitted
    /\ arg' = [arg EXCEPT ![t] = 0]
    /\ dur' = [dur EXCEPT ![t] = 0]
    /\ now' = [now EXCEPT ![t] = 0]

\* seeded fault: current_count <= self.limit
AfterGetOffByOne(t, r) ==
    LET current_count == IF r.ok THEN r.val ELSE 0 IN
    /\ trace' = [trace EXCEPT ![t] = Append(@, Call("get", TRUE))]
    /\ UNCHANGED <<windowAdmitted, ret, hist>>
    /\ IF current_count <= limit
       THEN /\ pc' = [pc EXCEPT ![t] = "incr"]
            /\ arg' = [arg EXCEPT ![t] = 1]
            /\ now' = [now EXCEPT ![t] = 0]
            /\ UNCHANGED <<result, admitted, dur>>
       ELSE Return(t, FALSE)

\* seeded fault: current_count + 1 < self.limit
AfterGetStrict(t, r) ==
    LET current_count == IF r.ok THEN r.val ELSE 0 IN
    /\ trace' = [trace EXCEPT ![t] = Append(@, Call("get", TRUE))]
    /\ UNCHANGED <<windowAdmitted, ret, hist>>
    /\ IF current_count + 1 < limit
       THEN /\ pc' = [pc EXCEPT ![t] = "incr"]
            /\ arg' = [arg EXCEPT ![t] = 1]
            /\ now' = [now EXCEPT ![t] = 0]
            /\ UNCHANGED <<result, admitted, dur>>
       ELSE Return(t, FALSE)

\* limiter.rs:65-69, 80-82: get has returned r
AfterGet(t, r) ==
    LET current_count == IF r.ok THEN r.val ELSE 0 IN
    /\ trace' = [trace EXCEPT ![t] = Append(@, Call("get", TRUE))]
    /\ UNCHANGED <<windowAdmitted, ret, hist>>
    /\ IF current_count < limit
       THEN /\ pc' = [pc EXCEPT ![t] = "incr"]
            /\ arg' = [arg EXCEPT ![t] = 1]
            /\ now' = [now EXCEPT ![t] = 0]
            /\ UNCHANGED <<result, admitted, dur>>
       ELSE Return(t, FALSE)

\* seeded fault: Err(_) => true (fail open)
AfterIncrFailOpen(t, r) ==
    /\ trace' = [trace EXCEPT ![t] = Append(@, Call("incr", r.ok))]
    /\ UNCHANGED <<ret, hist>>
    /\ IF r.ok /\ r.val = 1
       THEN /\ pc' = [pc EXCEPT ![t] = "set"]
            /\ arg' = [arg EXCEPT ![t] = r.val]
            /\ dur' = [dur EXCEPT ![t] = ttl]
            /\ now' = [now EXCEPT ![t] = 0]
            /\ UNCHANGED <<result, admitted, windowAdmitted>>
       ELSE /\ Return(t, TRUE)
            /\ windowAdmitted' = [windowAdmitted EXCEPT ![key[t]] = @ + 1]

\* seeded fault: the set that gives a new counter its expiry is left out
AfterIncrNoRepair(t, r) ==
    /\ trace' = [trace EXCEPT ![t] = Append(@, Call("incr", r.ok))]
    /\ UNCHANGED <<ret, hist>>
    /\ IF r.ok
       THEN /\ Return(t, TRUE)
            /\ windowAdmitted' = [windowAdmitted EXCEPT ![key[t]] = @ + 1]
       ELSE /\ Return(t, FALSE)
            /\ UNCHANGED windowAdmitted

\* seeded fault: the count is compared with the limit after the increment too
AfterIncrDenyOver(t, r) ==
    /\ trace' = [trace EXCEPT ![t] = Append(@, Call("incr", r.ok))]
    /\ UNCHANGED <<ret, hist>>
    /\ IF r.ok /\ r.val <= limit
       THEN IF r.val = 1
            THEN /\ pc' = [pc EXCEPT ![t] = "set"]
                 /\ arg' = [arg EXCEPT ![t] = r.val]
                 /\ dur' = [dur EXCEPT ![t] = ttl]
                 /\ now' = [now EXCEPT ![t] = 0]
                 /\ UNCHANGED <<result, admitted, windowAdmitted>>
            ELSE /\ Return(t, TRUE)
                 /\ windowAdmitted' = [windowAdmitted EXCEPT ![key[t]] = @ + 1]
       ELSE /\ Return(t, FALSE)
            /\ UNCHANGED windowAdmitted

\* limiter.rs:70-79: incr has returned r
AfterIncr(t, r) ==
    /\ trace' = [trace EXCEPT ![t] = Append(@, Call("incr", r.ok))]
    /\ UNCHANGED <<ret, hist>>
    /\ IF r.ok
       THEN IF r.val = 1
            THEN /\ pc' = [pc EXCEPT ![t] = "set"]
                 /\ arg' = [arg EXCEPT ![t] = r.val]
                 /\ dur' = [dur EXCEPT ![t] = ttl]
                 /\ now' = [now EXCEPT ![t] = 0]
                 /\ UNCHANGED <<result, admitted, windowAdmitted>>
            ELSE /\ Return(t, TRUE)
                 /\ windowAdmitted' = [windowAdmitted EXCEPT ![key[t]] = @ + 1]
       ELSE /\ Return(t, FALSE)
            /\ UNCHANGED windowAdmitted

\* seeded fault: the result of set decides the result of allow()
AfterSetPropagate(t, r) ==
    /\ trace' = [trace EXCEPT ![t] = Append(@, Call("set", r.ok))]
    /\ windowAdmitted' = [windowAdmitted EXCEPT ![key[t]] = IF r.ok THEN 1 ELSE @]
    /\ UNCHANGED <<ret, hist>>
    /\ Return(t, r.ok)

\* seeded fault: a set that returned Err is issued again
AfterSetRetry(t, r) ==
    /\ trace' = [trace EXCEPT ![t] = Append(@, Call("set", r.ok))]
    /\ UNCHANGED <<ret, hist>>
    /\ IF r.ok
       THEN /\ windowAdmitted' = [windowAdmitted EXCEPT ![key[t]] = 1]
            /\ Return(t, TRUE)
       ELSE /\ pc' = [pc EXCEPT ![t] = "set"]
            /\ now' = [now EXCEPT ![t] = 0]
            /\ UNCHANGED <<windowAdmitted, result, admitted, arg, dur>>

\* limiter.rs:74-76: set has returned r; its result is dropped
AfterSet(t, r) ==
    /\ trace' = [trace EXCEPT ![t] = Append(@, Call("set", r.ok))]
    /\ windowAdmitted' = [windowAdmitted EXCEPT ![key[t]] = IF r.ok THEN 1 ELSE @ + 1]
    /\ UNCHANGED <<ret, hist>>
    /\ Return(t, TRUE)

\* limiter.rs:58-65: a thread calls allow(ip)
Allow(t, ip) ==
    /\ ~InCall(t)
    /\ TotalStarted < MaxCalls
    /\ pc' = [pc EXCEPT ![t] = "get"]
    /\ caller' = [caller EXCEPT ![t] = "allow"]
    /\ key' = [key EXCEPT ![t] = Key(ip)]
    /\ trace' = [trace EXCEPT ![t] = <<>>]
    /\ sawExpired' = [sawExpired EXCEPT ![t] = FALSE]
    /\ started' = [started EXCEPT ![ip] = @ + 1]
    /\ overlap' = (overlap \/ \E u \in Threads \ {t} : InCall(u))
    /\ contended' = [contended EXCEPT ![ip] =
                        @ \/ \E u \in Threads \ {t} : InCall(u) /\ key[u] = Key(ip)]
    /\ last' = t
    /\ UNCHANGED <<clock, limiterVars, bucketVars, store, arg, dur, now, result, ret, admitted,
                   nsets, anchor, windowAdmitted, failed, hist>>

\* ------------------------------------------- a client of the store itself
\* A direct call of get, set or incr returns r to its caller.
Deliver(t, op, at, r) ==
    /\ pc' = [pc EXCEPT ![t] = "done"]
    /\ ret' = [ret EXCEPT ![t] = r]
    /\ hist' = Append(hist, [op |-> op, key |-> key[t], arg |-> arg[t],
                             dur |-> dur[t], now |-> at, ret |-> r])
    /\ arg' = [arg EXCEPT ![t] = 0]
    /\ dur' = [dur EXCEPT ![t] = 0]
    /\ now' = [now EXCEPT ![t] = 0]
    /\ UNCHANGED <<result, trace, admitted, windowAdmitted>>

\* the store call returns to whoever made it
GetReturns(t, at, r) ==
    IF caller[t] = "allow" THEN AfterGet(t, r) ELSE Deliver(t, "get", at, r)

IncrReturns(t, r) ==
    IF caller[t] = "allow" THEN AfterIncr(t, r) ELSE Deliver(t, "incr", now[t], r)

SetReturns(t, r) ==
    IF caller[t] = "allow" THEN AfterSet(t, r) ELSE Deliver(t, "set", now[t], r)

\* the calls a client may make on the store (limiter.rs:6-15 CacheBackend)
OpsBegun == Len(hist) + Cardinality({t \in Threads : InCall(t)})

DirectCall(t, op, k, v, d) ==
    /\ ~InCall(t)
    /\ OpsBegun < MaxOps
    /\ pc' = [pc EXCEPT ![t] = op]
    /\ caller' = [caller EXCEPT ![t] = "direct"]
    /\ key' = [key EXCEPT ![t] = k]
    /\ arg' = [arg EXCEPT ![t] = v]
    /\ dur' = [dur EXCEPT ![t] = d]
    /\ now' = [now EXCEPT ![t] = 0]
    /\ UNCHANGED <<clock, limiterVars, bucketVars, store, result, ret, historyVars>>

DirectGet(t, k) == DirectCall(t, "get", k, 0, 0)
DirectSet(t, k, value, d) == DirectCall(t, "set", k, value, d)
DirectIncr(t, k, amount) == DirectCall(t, "incr", k, amount, 0)

\* ------------------------------------------------------ InMemoryCache::get
\* in_memory.rs:28-31, 40-43: the lookup and the expiry test, under the read guard
Get(t) ==
    /\ pc[t] = "get"
    /\ IF Present(key[t])
       THEN IF IsLive(store[key[t]], clock)
            THEN GetReturns(t, clock, Some(store[key[t]].value))
            ELSE \* in_memory.rs:35: drop(entry) releases the guard
                 /\ pc' = [pc EXCEPT ![t] = "get_remove"]
                 /\ now' = [now EXCEPT ![t] = clock]
                 /\ UNCHANGED <<arg, dur, result, ret, trace, admitted,
                                windowAdmitted, hist>>
       ELSE GetReturns(t, clock, NoVal)
    /\ sawExpired' = [sawExpired EXCEPT ![t] =
                         Present(key[t]) /\ store[key[t]].expires_at <= clock]
    /\ UNCHANGED <<clock, limiterVars, bucketVars, store, caller, key, started, overlap, contended, last,
                   nsets, anchor, failed>>

\* in_memory.rs:36-38: remove whatever the key holds now, return None
GetRemove(t) ==
    /\ pc[t] = "get_remove"
    /\ store' = Remove(key[t])
    /\ GetReturns(t, now[t], NoVal)
    /\ UNCHANGED <<clock, limiterVars, bucketVars, caller, key, sawExpired, started, overlap, contended, last,
                   nsets, anchor, failed>>

\* ----------------------------------------------------- InMemoryCache::incr
\* in_memory.rs:54: let now = Instant::now();
IncrNow(t) ==
    /\ pc[t] = "incr"
    /\ now' = [now EXCEPT ![t] = clock]
    /\ pc' = [pc EXCEPT ![t] = "incr_get_mut"]
    /\ UNCHANGED <<clock, limiterVars, bucketVars, store, caller, key, arg, dur,
                   result, ret,
                   historyVars>>

\* in_memory.rs:55-63: get_mut, and the update under its write guard
IncrGetMut(t) ==
    /\ pc[t] = "incr_get_mut"
    /\ IF Present(key[t])
       THEN LET e == IncrEntry(store[key[t]], arg[t], now[t]) IN
            /\ store' = Insert(key[t], e)
            /\ IncrReturns(t, Some(e.value))
       ELSE \* get_mut returned None: no guard is held
            /\ pc' = [pc EXCEPT ![t] = "incr_insert"]
            /\ UNCHANGED <<store, arg, dur, now, result, ret, trace, admitted,
                           windowAdmitted, hist>>
    /\ UNCHANGED <<clock, limiterVars, bucketVars, caller, key, sawExpired, started, overlap, contended, last,
                   nsets, anchor, failed>>

\* in_memory.rs:65-69: insert the new entry
IncrInsert(t) ==
    /\ pc[t] = "incr_insert"
    /\ store' = Insert(key[t], IncrNewEntry(arg[t], now[t]))
    /\ IncrReturns(t, Some(arg[t]))
    /\ UNCHANGED <<clock, limiterVars, bucketVars, caller, key, sawExpired, started, overlap, contended, last,
                   nsets, anchor, failed>>

\* limiter.rs:14: a backend's incr may return Err; nothing is written
IncrFail(t) ==
    /\ pc[t] = "incr"
    /\ failed' = TRUE
    /\ IncrReturns(t, NoVal)
    /\ UNCHANGED <<clock, limiterVars, bucketVars, store, caller, key, sawExpired, started, overlap, contended,
                   last, nsets, anchor>>

\* ------------------------------------------------------ InMemoryCache::set
\* in_memory.rs:47: let expires_at = Instant::now() + ttl;
SetNow(t) ==
    /\ pc[t] = "set"
    /\ now' = [now EXCEPT ![t] = clock]
    /\ pc' = [pc EXCEPT ![t] = "set_insert"]
    /\ UNCHANGED <<clock, limiterVars, bucketVars, store, caller, key, arg, dur,
                   result, ret,
                   historyVars>>

\* in_memory.rs:48-50: insert the entry, return Ok(())
SetInsert(t) ==
    /\ pc[t] = "set_insert"
    /\ store' = Insert(key[t], SetEntry(arg[t], now[t], dur[t]))
    /\ nsets' = [nsets EXCEPT ![key[t]] = @ + 1]
    /\ anchor' = [anchor EXCEPT ![key[t]] = now[t]]
    /\ SetReturns(t, Some(0))
    /\ UNCHANGED <<clock, limiterVars, bucketVars, caller, key, sawExpired, started, overlap, contended, last,
                   failed>>

\* limiter.rs:11: a backend's set may return Err; nothing is written
SetFail(t) ==
    /\ pc[t] = "set"
    /\ failed' = TRUE
    /\ SetReturns(t, NoVal)
    /\ UNCHANGED <<clock, limiterVars, bucketVars, store, caller, key, sawExpired, started, overlap, contended,
                   last, nsets, anchor>>

\* ------------------------------------------------------------------ time
Tick ==
    /\ clock < MaxClock
    /\ clock' = clock + 1
    /\ UNCHANGED <<limiterVars, bucketVars, store, frameVars, historyVars>>

\* ---------------------------------------------------------- token bucket
Min(a, b) == IF a < b THEN a ELSE b

\* seeded fault: a refill that is not capped at capacity
RefillUncapped(n, elapsed) == n + (elapsed * capacity) \div refill_period

\* tokens after the refill for `elapsed` ticks: min(capacity, tokens + accrued),
\* accrued = (elapsed / refill_period) * capacity, truncated to an integer
Refill(n, elapsed) == Min(capacity, n + (elapsed * capacity) \div refill_period)

\* a caller takes the bucket's mutex (tests/integration_test.rs:8)
BucketLock(t) ==
    /\ holder = "none"
    /\ bcount < MaxBucketCalls
    /\ holder' = t
    /\ UNCHANGED <<clock, limiterVars, store, frameVars, historyVars, capacity,
                   refill_period, tokens, last_refill, bresult, bucketHistory>>

\* seeded fault: a grant that empties the bucket
ConsumeAll(n) == 0

\* a granted call takes one token
Consume(n) == n - 1

\* allow(), under the mutex: refill, then decide
BucketAllow(t) ==
    /\ holder = t
    /\ bcount < MaxBucketCalls
    /\ LET elapsed == clock - last_refill
           n == Refill(tokens, elapsed)
           opens == bcount = 0 \/ elapsed > 0   \* the first call at this instant
           got == IF n > 0 THEN 1 ELSE 0
       IN
       /\ last_refill' = clock
       /\ IF n > 0
          THEN /\ tokens' = Consume(n)
               /\ bresult' = [bresult EXCEPT ![t] = TRUE]
          ELSE /\ tokens' = n
               /\ bresult' = [bresult EXCEPT ![t] = FALSE]
       /\ bgranted' = bgranted + got
       /\ bidle' = IF opens THEN elapsed ELSE bidle
       /\ bburst' = IF opens THEN 1 ELSE bburst + 1
       /\ bburstGranted' = IF opens THEN got ELSE bburstGranted + got
    /\ bcount' = bcount + 1
    /\ bfirst' = IF bfirst = -1 THEN clock ELSE bfirst
    /\ bcalls' = [bcalls EXCEPT ![t] = @ + 1]
    /\ UNCHANGED <<clock, limiterVars, store, frameVars, historyVars, capacity,
                   refill_period, holder>>

\* the guard is dropped
BucketUnlock(t) ==
    /\ holder = t
    /\ holder' = "none"
    /\ UNCHANGED <<clock, limiterVars, store, frameVars, historyVars, capacity,
                   refill_period, tokens, last_refill, bresult, bucketHistory>>

\* RateLimiter::new(capacity, refill_period): the bucket starts full
BucketNew ==
    /\ capacity \in 0..MaxCapacity
    /\ refill_period \in 1..MaxPeriod
    /\ tokens = capacity
    /\ last_refill = 0
    /\ holder = "none"
    /\ bresult = [t \in Threads |-> FALSE]
    /\ bcount = 0
    /\ bgranted = 0
    /\ bfirst = -1
    /\ bcalls = [t \in Threads |-> 0]
    /\ bidle = 0
    /\ bburst = 0
    /\ bburstGranted = 0

\* ------------------------------------------------------- the specification
\* in_memory.rs:19-23  InMemoryCache::new(): an empty map
NewStore == [x \in {} |-> CacheEntry(0, 0)]

\* in_memory.rs:46-51: the maps that set calls made at clock 0 leave
WrittenStores ==
    UNION {[K -> {SetEntry(v, 0, d) : v \in 1..MaxValue, d \in 0..MaxTtl}] :
              K \in SUBSET Keys}

\* the maps the cache handed to RateLimiter::new may hold
Stores == {NewStore} \cup WrittenStores

\* limiter.rs:38-40 RateLimiter::new, in_memory.rs:19-23 InMemoryCache::new
LimiterNew ==
    /\ clock = 0
    /\ limit \in 0..MaxLimit
    /\ ttl \in 0..MaxTtl
    /\ store \in Stores
    /\ pc = [t \in Threads |-> "idle"]
    /\ caller = [t \in Threads |-> "allow"]
    /\ key = [t \in Threads |-> Key("a")]
    /\ arg = [t \in Threads |-> 0]
    /\ dur = [t \in Threads |-> 0]
    /\ now = [t \in Threads |-> 0]
    /\ result = [t \in Threads |-> FALSE]
    /\ ret = [t \in Threads |-> NoVal]
    /\ trace = [t \in Threads |-> <<>>]
    /\ sawExpired = [t \in Threads |-> FALSE]
    /\ started = [i \in Ips |-> 0]
    /\ admitted = [i \in Ips |-> 0]
    /\ overlap = FALSE
    /\ contended = [i \in Ips |-> FALSE]
    /\ last = CHOOSE t \in Threads : TRUE
    /\ nsets = [k \in Keys |-> 0]
    /\ anchor = [k \in Keys |-> 0]
    /\ windowAdmitted = [k \in Keys |-> 0]
    /\ failed = FALSE
    /\ hist = <<>>

Init == LimiterNew /\ store = NewStore /\ BucketNew /\ capacity = 0 /\ refill_period = 1

\* the steps of the InMemoryCache calls in progress
StoreStep ==
    \/ \E t \in Threads : Get(t)
    \/ \E t \in Threads : GetRemove(t)
    \/ \E t \in Threads : IncrNow(t)
    \/ \E t \in Threads : IncrGetMut(t)
    \/ \E t \in Threads : IncrInsert(t)
    \/ \E t \in Threads : SetNow(t)
    \/ \E t \in Threads : SetInsert(t)

\* The limiter is generic in its backend: incr and set may also return Err.
Next ==
    \/ \E t \in Threads, ip \in Ips : Allow(t, ip)
    \/ StoreStep
    \/ \E t \in Threads : IncrFail(t)
    \/ \E t \in Threads : SetFail(t)
    \/ Tick

Spec == Init /\ [][Next]_vars

\* The InMemoryCache alone, called by clients directly (no limiter in front of it).
InitStore == Init /\ limit = 0 /\ ttl = 0

NextStore ==
    \/ \E t \in Threads, k \in Keys : DirectGet(t, k)
    \/ \E t \in Threads, k \in Keys, v \in 1..MaxValue, d \in 0..MaxTtl :
            DirectSet(t, k, v, d)
    \/ \E t \in Threads, k \in Keys, a \in 1..MaxAmount : DirectIncr(t, k, a)
    \/ StoreStep
    \/ Tick

SpecStore == InitStore /\ [][NextStore]_vars

\* The limiter over a cache that its other owner has written before (the cache
\* is an Arc; limiter.rs:38 takes a clone of it), on the in-memory backend.
InitShared == LimiterNew /\ BucketNew /\ capacity = 0 /\ refill_period = 1

NextShared ==
    \/ \E t \in Threads, ip \in Ips : TotalStarted < MaxSharedCalls /\ Allow(t, ip)
    \/ StoreStep
    \/ Tick

SpecShared == InitShared /\ [][NextShared]_vars

\* The token bucket alone.
InitBucket == LimiterNew /\ store = NewStore /\ limit = 0 /\ ttl = 0 /\ BucketNew

NextBucket ==
    \/ \E t \in Threads : BucketLock(t)
    \/ \E t \in Threads : BucketAllow(t)
    \/ \E t \in Threads : BucketUnlock(t)
    \/ Tick

SpecBucket == InitBucket /\ [][NextBucket]_vars

\* ================================================================ claims
\* the calls so far were made one after another, on a backend that never failed
SingleCaller == ~overlap /\ ~failed

Made(t, c) == \E i \in 1..Len(trace[t]) : trace[t][i] = c

\* C1: single caller, limit L >= 1, fresh identity, no window expiry elapsed
\* (the clock is still before the first set's reading + ttl): call number n of
\* allow(identity) returns true exactly when n <= L.
C1_FirstLimitCallsAdmitted ==
    LET t == last
        k == key[t]
    IN  (/\ pc[t] = "done" /\ SingleCaller /\ limit >= 1
         /\ nsets[k] = 1 /\ clock < anchor[k] + ttl)
        => (result[t] <=> started[IpOf(k)] <= limit)

C1_Witness ==
    LET t == last
        k == key[t]
    IN  /\ pc[t] = "done" /\ SingleCaller /\ limit = 2
        /\ nsets[k] = 1 /\ clock < anchor[k] + ttl /\ clock > 0
        /\ started[IpOf(k)] = 3 /\ admitted[IpOf(k)] = 2 /\ ~result[t]

\* C2: single caller, limit >= 1: an allow(identity) whose get finds the entry
\* expired (clock >= its expiry) returns true and leaves the entry with count 1
\* and expiry = the clock reading of that call's set + ttl.
C2_ResetAfterExpiry ==
    LET t == last
        k == key[t]
    IN  (pc[t] = "done" /\ SingleCaller /\ limit >= 1 /\ sawExpired[t])
        => /\ result[t]
           /\ trace[t] = <<Call("get", TRUE), Call("incr", TRUE), Call("set", TRUE)>>
           /\ Present(k)
           /\ store[k] = CacheEntry(1, anchor[k] + ttl)
           /\ anchor[k] <= clock

C2_Witness ==
    LET t == last
        k == key[t]
    IN  /\ pc[t] = "done" /\ SingleCaller /\ limit = 1 /\ ttl = 1 /\ sawExpired[t]
        /\ started[IpOf(k)] = 3 /\ admitted[IpOf(k)] = 2 /\ nsets[k] = 2
        /\ result[t] /\ store[k] = CacheEntry(1, 2)

\* C3: an incr that finds an entry leaves its expiry as it was (and adds to a
\* live one); an allow() denied by the count changes nothing in the store; and
\* for a single caller, once the calls admitted in the window reach the limit,
\* a get of allow() at any clock before (reading of the window's set + ttl)
\* ends the call with false.
C3_WindowAnchored ==
    [][\A t \in Threads :
        LET k == key[t] IN
        /\ (IncrGetMut(t) /\ Present(k))
           => /\ k \in DOMAIN store'
              /\ store'[k].expires_at = store[k].expires_at
              /\ (store[k].expires_at > now[t]
                  => store'[k].value = store[k].value + arg[t])
        /\ (pc[t] \in {"get", "get_remove"} /\ pc'[t] = "done")
           => store' = store
        /\ (/\ Get(t) /\ SingleCaller /\ limit >= 1 /\ nsets[k] >= 1
            /\ windowAdmitted[k] >= limit /\ clock < anchor[k] + ttl)
           => (pc'[t] = "done" /\ ~result'[t])
      ]_vars

C3_Witness ==
    LET t == last
        k == key[t]
    IN  /\ pc[t] = "done" /\ SingleCaller /\ limit = 1 /\ ~result[t]
        /\ windowAdmitted[k] = 1 /\ started[IpOf(k)] = 3
        /\ anchor[k] < clock /\ clock < anchor[k] + ttl
        /\ store[k] = CacheEntry(1, anchor[k] + ttl)

\* C4: with limit = 0 no allow() returns true and none gets past its get:
\* no incr and no set is issued, and the store stays empty.
C4_ZeroLimitDeniesAll ==
    limit = 0 =>
        /\ \A t \in Threads :
            /\ pc[t] \in {"idle", "get", "get_remove", "done"}
            /\ ~result[t]
            /\ \A i \in 1..Len(trace[t]) : trace[t][i].op = "get"
        /\ \A ip \in Ips : admitted[ip] = 0
        /\ \A k \in Keys : nsets[k] = 0
        /\ DOMAIN store = {}

C4_Witness ==
    /\ limit = 0 /\ overlap /\ clock > 0 /\ TotalStarted = MaxCalls
    /\ \A t \in Threads : pc[t] = "done" /\ ~result[t]
    /\ \E t, u \in Threads : key[t] # key[u]

\* C5: on the in-memory backend, while the allow() calls begun for an identity
\* number at most `limit`, every one of them that has returned returned true,
\* whatever the interleaving.
C5_ConcurrentBelowLimit ==
    \A t \in Threads :
        (pc[t] = "done" /\ ~failed /\ started[IpOf(key[t])] <= limit) => result[t]

C5_Witness ==
    /\ overlap /\ ~failed /\ limit = 2
    /\ \A t \in Threads : pc[t] = "done" /\ result[t] /\ key[t] = Key("a")
    /\ started["a"] = 2

\* C6: an allow() whose incr returned Err returns false and issues no set.
C6_FailClosed ==
    \A t \in Threads :
        Made(t, Call("incr", FALSE))
        => /\ pc[t] = "done"
           /\ ~result[t]
           /\ \A i \in 1..Len(trace[t]) : trace[t][i].op # "set"

C6_Witness ==
    \E t \in Threads :
        /\ pc[t] = "done" /\ ~result[t]
        /\ trace[t] = <<Call("get", TRUE), Call("incr", FALSE)>>

\* C7: an allow() whose TTL-repair set returned Err still returns true; for a
\* single caller the entry its incr wrote is still there with value 1.
C7_SetFailureSwallowed ==
    /\ \A t \in Threads :
        (pc[t] = "done" /\ Made(t, Call("set", FALSE))) => result[t]
    /\ LET t == last
           k == key[t]
       IN  (pc[t] = "done" /\ ~overlap /\ Made(t, Call("set", FALSE)))
           => (Present(k) /\ store[k].value = 1)

C7_Witness ==
    LET t == last
        k == key[t]
    IN  /\ pc[t] = "done" /\ ~overlap /\ result[t]
        /\ trace[t] = <<Call("get", TRUE), Call("incr", TRUE), Call("set", FALSE)>>
        /\ Present(k) /\ store[k].value = 1

\* the stored counts of a map
Values(m) == [k \in DOMAIN m |-> m[k].value]

EmptyStore == NewStore

\* Some order of the completed calls hist[i], i \in todo, applied one at a time
\* from the map m, returns what each call returned and ends with the stored
\* counts the store holds.
RECURSIVE SomeOrder(_, _)
SomeOrder(m, todo) ==
    IF todo = {}
    THEN Values(m) = Values(store)
    ELSE \E i \in todo :
            LET out == SeqApply(m, hist[i]) IN
            /\ out.ret = hist[i].ret
            /\ SomeOrder(out.store, todo \ {i})

\* C8: incr is atomic per key: when all the incr and set calls made on the
\* store have returned, what they returned and the counts stored are those of
\* the same calls applied one at a time in some order.
C8_IncrAtomic ==
    (/\ \A t \in Threads : ~InCall(t)
     /\ \A i \in 1..Len(hist) : hist[i].op \in {"incr", "set"})
    => SomeOrder(EmptyStore, 1..Len(hist))

\* C9: the removal in get deletes only an expired entry: it never deletes an
\* entry that is live (expires_at > now) when the removal happens.
C9_GetRemovesOnlyExpired ==
    [][\A t \in Threads :
        (GetRemove(t) /\ Present(key[t])) => ~(store[key[t]].expires_at > clock)
      ]_vars

\* C10: a fresh token bucket of capacity C, all calls made at one instant: of the
\* first n calls of allow() exactly min(n, C) returned true, i.e. calls 1..C
\* return true and call C+1 returns false.
C10_BucketFirstCapacityCalls ==
    (bcount >= 1 /\ clock = bfirst) => bgranted = Min(bcount, capacity)

C10_Witness ==
    /\ capacity = 2 /\ bcount = 3 /\ bgranted = 2 /\ clock = bfirst
    /\ \E t \in Threads : holder = t /\ ~bresult[t]

\* C11: a full bucket of capacity N = the number of threads, every thread having
\* called allow() exactly once and all calls at one instant: all N calls
\* returned true, none false, and the bucket is empty (no token granted twice,
\* none lost), whatever the order in which the threads took the lock.
C11_BucketOneCallPerThread ==
    (/\ capacity = Cardinality(Threads)
     /\ \A t \in Threads : bcalls[t] = 1
     /\ clock = bfirst)
    => /\ bgranted = Cardinality(Threads)
       /\ \A t \in Threads : bresult[t]
       /\ tokens = 0

C11_Witness ==
    /\ capacity = Cardinality(Threads)
    /\ \A t \in Threads : bcalls[t] = 1 /\ bresult[t]
    /\ clock = bfirst /\ bgranted = Cardinality(Threads) /\ tokens = 0
    /\ holder = "none"

\* C12: 0 <= tokens <= capacity in every state; of the calls made at one
\* instant at most `capacity` return true; and when that instant came after an
\* idle time of at least refill_period (once or several times the period),
\* exactly min(calls, capacity) of them return true.
C12_BucketCapped ==
    /\ 0 <= tokens /\ tokens <= capacity
    /\ (bcount >= 1 /\ clock = last_refill)
       => /\ bburstGranted <= capacity
          /\ (bidle >= refill_period => bburstGranted = Min(bburst, capacity))

C12_Witness ==
    /\ capacity = 2 /\ refill_period = 1 /\ clock = last_refill
    /\ bidle = 2 /\ bburst = 3 /\ bburstGranted = 2 /\ bcount = 4 /\ tokens = 0
    /\ \E t \in Threads : holder = t /\ ~bresult[t]

\* the store calls the thread's current (or last) allow() has issued so far
StoreCalls(t) == Len(trace[t]) + (IF InCall(t) THEN 1 ELSE 0)

Ops(tr) == [i \in 1..Len(tr) |-> tr[i].op]

\* C13 (as stated): on every path through allow() the calls made to the store's
\* get, set and incr number at most 2.
C13_AtMostTwoStoreCalls ==
    \A t \in Threads : StoreCalls(t) <= 2

\* C13 (amended): on every path through allow() the calls made to the store
\* number at most 3: one get, then at most one incr, then at most one set, the
\* set only after an incr that returned Ok.
C13_AtMostThreeStoreCalls ==
    \A t \in Threads :
        /\ StoreCalls(t) <= 3
        /\ Ops(trace[t]) = SubSeq(<<"get", "incr", "set">>, 1, Len(trace[t]))
        /\ Len(trace[t]) = 3 => trace[t][2] = Call("incr", TRUE)
        /\ pc[t] \in {"incr", "incr_get_mut", "incr_insert"} => Len(trace[t]) = 1
        /\ pc[t] \in {"set", "set_insert"} => Len(trace[t]) = 2

C13_Witness ==
    \E t \in Threads :
        /\ pc[t] = "done" /\ result[t] /\ ~failed
        /\ trace[t] = <<Call("get", TRUE), Call("incr", TRUE), Call("set", TRUE)>>
        /\ Present(key[t]) /\ store[key[t]] = CacheEntry(1, anchor[key[t]] + ttl)

\* C14 (as stated): an allow() that returns false because the count read is
\* >= limit leaves the store as it was: none of its steps changes the store,
\* for every limit and every prior content of the store.
C14_DeniedMutatesNothing ==
    [][\A t \in Threads :
        ((Get(t) \/ GetRemove(t)) /\ pc'[t] = "done") => store' = store
      ]_vars

\* C14 (amended): an allow() denied by the count has made one store call, its
\* get, and no incr or set; the store is as it was, except that with limit = 0
\* a get that found an expired entry under the call's own key has removed what
\* that key held.
C14_DeniedOnlyPurges ==
    [][\A t \in Threads :
        LET k == key[t] IN
        /\ (pc[t] # "done" /\ pc'[t] = "done" /\ ~result'[t])
           => /\ Get(t) \/ GetRemove(t)
              /\ trace'[t] = <<Call("get", TRUE)>>
        /\ ((Get(t) \/ GetRemove(t)) /\ pc'[t] = "done")
           => /\ ~result'[t]
              /\ \/ store' = store
                 \/ /\ GetRemove(t) /\ limit = 0
                    /\ sawExpired[t] /\ Present(k)
                    /\ store' = Remove(k)
      ]_vars

C14_Witness ==
    \E t \in Threads :
        /\ pc[t] = "done" /\ ~result[t] /\ limit = 0
        /\ sawExpired[t] /\ ~Present(key[t])
        /\ trace[t] = <<Call("get", TRUE)>>
        /\ \E k \in Keys \ {key[t]} : Present(k)

\* the completed set calls on key k
SetsOn(k) == {i \in 1..Len(hist) : hist[i].op = "set" /\ hist[i].key = k}

\* one set has been made on key k and, besides gets, nothing else: no incr has
\* been made on it and no other thread has a set or an incr on it in progress
OnlyOneSet(k, t) ==
    /\ Cardinality(SetsOn(k)) = 1
    /\ \A i \in 1..Len(hist) : hist[i].key = k => hist[i].op \in {"set", "get"}
    /\ \A u \in Threads \ {t} :
          (InCall(u) /\ key[u] = k) => pc[u] \in {"get", "get_remove"}

\* C15: get returns the stored count exactly when the key holds an entry with
\* expires_at > now; an entry with expires_at <= now is absent for get, which
\* removes it, and incr resets it instead of adding to it.  After one
\* set(key, v, d) read at clock s and nothing else on the key but gets, a get
\* returns v at every clock < s + d and absent at every clock >= s + d.
C15_StrictLiveness ==
    [][\A t \in Threads :
        LET k == key[t] IN
        /\ Get(t)
           => /\ (Present(k) /\ store[k].expires_at > clock)
                 => (pc'[t] = "done" /\ ret'[t] = Some(store[k].value))
              /\ (Present(k) /\ store[k].expires_at <= clock)
                 => pc'[t] = "get_remove"
              /\ ~Present(k) => (pc'[t] = "done" /\ ret'[t] = NoVal)
        /\ GetRemove(t)
           => (pc'[t] = "done" /\ ret'[t] = NoVal /\ k \notin DOMAIN store')
        /\ (IncrGetMut(t) /\ Present(k))
           => store'[k].value = IF store[k].expires_at <= now[t]
                                THEN arg[t]
                                ELSE store[k].value + arg[t]
        /\ (Get(t) /\ OnlyOneSet(k, t))
           => LET s == hist[CHOOSE i \in SetsOn(k) : TRUE] IN
              IF clock < s.now + s.dur
              THEN pc'[t] = "done" /\ ret'[t] = Some(s.arg)
              ELSE pc'[t] = "get_remove" \/ (pc'[t] = "done" /\ ret'[t] = NoVal)
      ]_vars

C15_Witness ==
    /\ Len(hist) = 3
    /\ hist[1].op = "set" /\ hist[1].dur >= 1
    /\ \A i \in {2, 3} : hist[i].op = "get" /\ hist[i].key = hist[1].key
    /\ hist[2].now < hist[1].now + hist[1].dur /\ hist[2].ret = Some(hist[1].arg)
    /\ hist[3].now = hist[1].now + hist[1].dur /\ hist[3].ret = NoVal
    /\ hist[1].key \notin DOMAIN store

\* the completed calls that wrote key k (a call writes in the step it returns)
WritesOn(k) == {i \in 1..Len(hist) : hist[i].key = k /\ hist[i].op \in {"incr", "set"}}

\* the latest write of key k was an incr that found no live entry: it returned
\* its own amount (stored values are >= 1, so a live one returns more)
LastWriteWasFreshIncr(k) ==
    /\ WritesOn(k) # {}
    /\ LET w == hist[CHOOSE i \in WritesOn(k) : \A j \in WritesOn(k) : j <= i] IN
       w.op = "incr" /\ w.ret = Some(w.arg)

\* C16: an incr(key, amount) that finds no live entry (none, or one with
\* expires_at <= the now it read) returns amount and leaves an entry with value
\* amount and expires_at <= now, never old value + amount; a get made after it
\* and before any set returns absent; an incr that finds a live entry returns
\* old value + amount.
C16_IncrOnNoLiveEntry ==
    [][\A t \in Threads :
        LET k == key[t] IN
        /\ (IncrGetMut(t) /\ Present(k) /\ store[k].expires_at <= now[t])
           => /\ pc'[t] = "done" /\ ret'[t] = Some(arg[t])
              /\ store'[k].value = arg[t]
              /\ store'[k].expires_at <= now[t]
        /\ (IncrGetMut(t) /\ Present(k) /\ store[k].expires_at > now[t])
           => /\ pc'[t] = "done" /\ ret'[t] = Some(store[k].value + arg[t])
              /\ store'[k] = CacheEntry(store[k].value + arg[t], store[k].expires_at)
        /\ (IncrGetMut(t) /\ ~Present(k))
           => (pc'[t] = "incr_insert" /\ store' = store)
        /\ IncrInsert(t)
           => /\ pc'[t] = "done" /\ ret'[t] = Some(arg[t])
              /\ store'[k].value = arg[t]
              /\ store'[k].expires_at <= clock
        /\ (Get(t) /\ LastWriteWasFreshIncr(k))
           => (pc'[t] = "get_remove" \/ (pc'[t] = "done" /\ ret'[t] = NoVal))
      ]_vars

C16_Witness ==
    /\ Len(hist) = 3
    /\ \A i \in 1..3 : hist[i].key = hist[1].key
    /\ hist[1].op = "set" /\ hist[1].arg = 1 /\ hist[1].dur = 1
    /\ hist[2].op = "incr" /\ hist[2].arg = 2 /\ hist[2].ret = Some(2)
    /\ hist[2].now >= hist[1].now + hist[1].dur
    /\ hist[3].op = "get" /\ hist[3].ret = NoVal
    /\ hist[1].key \notin DOMAIN store

\* the count stored for an identity, 0 when its key holds no entry
StoredCount(ip) == IF Present(Key(ip)) THEN store[Key(ip)].value ELSE 0

\* no window has run out: every set read the clock at 0 or later, and the clock
\* is still before 0 + ttl; no store call has failed
WithinFirstWindow == ttl > 0 /\ clock < ttl /\ ~failed

\* C17: N threads on one limiter, ttl > 0, no store failure, no window expiry
\* elapsed: the allow(identity) calls that returned true never number more than
\* limit + N - 1.
C17_AdmissionBound ==
    WithinFirstWindow
    => \A ip \in Ips : admitted[ip] <= limit + Cardinality(Threads) - 1

\* C18: from an empty store, ttl > 0, no window expiry elapsed: whenever no
\* allow() is in progress, the count stored for an identity equals the number
\* of allow(identity) calls that returned true.
C18_CountEqualsAdmitted ==
    (WithinFirstWindow /\ \A t \in Threads : ~InCall(t))
    => \A ip \in Ips : StoredCount(ip) = admitted[ip]

\* C19: ttl > 0, no store failure: whenever no allow() is in progress, every
\* entry under a rate_limit: key has the expiry a set call gave it, namely
\* (the clock reading of the latest set on that key) + ttl; none is left with
\* the expiry incr stamped on it at creation.
C19_RepairCompletes ==
    (ttl > 0 /\ ~failed /\ \A t \in Threads : ~InCall(t))
    => \A k \in Keys :
          Present(k) => (nsets[k] >= 1 /\ store[k].expires_at = anchor[k] + ttl)

C19_Witness ==
    /\ ttl > 0 /\ ~failed /\ overlap /\ \A t \in Threads : ~InCall(t)
    /\ \E k \in Keys :
          /\ Present(k) /\ nsets[k] = 2 /\ anchor[k] > 0
          /\ store[k].expires_at = anchor[k] + ttl
          /\ \A t \in Threads : key[t] = k /\ result[t]

\* what the store holds for an identity
EntryOf(ip) == IF Present(Key(ip)) THEN <<store[Key(ip)]>> ELSE <<>>

\* The calls for identity ip were made one after another (calls for other
\* identities may have run alongside them), none is in progress and the window
\* its latest set opened is running: the entry and the results are those the
\* calls for ip produce on their own, i.e. the entry counts the calls admitted
\* in the window, at most `limit`, and in the first window min(calls, limit)
\* of the calls returned true.
AsIfAlone(ip) ==
    LET k == Key(ip) IN
    (/\ ~contended[ip] /\ ~failed /\ limit >= 1
     /\ \A t \in Threads : InCall(t) => key[t] # k
     /\ nsets[k] >= 1 /\ clock < anchor[k] + ttl)
    => /\ EntryOf(ip) = <<CacheEntry(windowAdmitted[k], anchor[k] + ttl)>>
       /\ windowAdmitted[k] <= limit
       /\ nsets[k] = 1 => admitted[ip] = Min(started[ip], limit)

\* C20: a step of allow(a) changes no entry but the one under "rate_limit:" + a,
\* and the results of the allow(b) calls, made one after another, are the same
\* with calls of allow(a) running alongside them as without.
C20_IdentitiesIsolated ==
    [][/\ \A t \in Threads :
            pc'[t] # pc[t]
            => \A ip \in Ips \ {IpOf(key'[t])} : EntryOf(ip)' = EntryOf(ip)
       /\ \A ip \in Ips : AsIfAlone(ip)'
      ]_vars

C20_Witness ==
    /\ overlap /\ ~failed /\ limit = 1
    /\ \A ip \in Ips : ~contended[ip]
    /\ \A t \in Threads : ~InCall(t)
    /\ started["a"] = 1 /\ admitted["a"] = 1
    /\ started["b"] = 2 /\ admitted["b"] = 1
    /\ clock < anchor[Key("b")] + ttl
    /\ EntryOf("a") # <<>> /\ EntryOf("b") # <<>> /\ EntryOf("a") # EntryOf("b")

====
